---- MODULE Spec2Model ----
(***************************************************************************)
(* Verification model of arxiv-autosumm's API-orchestration core:          *)
(*   - BaseClient.process_batch and its helpers   (pipeline/client.py)     *)
(*   - CacheManager, the SQLite score cache       (pipeline/cache.py)      *)
(*   - the selection funnel of run_pipeline       (main.py)                *)
(*   - the PDF cache directory and its eviction   (main.py:64, 79-81)      *)
(* Python lists are sequences; Python index i is sequence index i+1.       *)
(***************************************************************************)
EXTENDS Integers, Sequences, FiniteSets, TLC

(***************************************************************************)
(* Bounds of the model.                                                    *)
(***************************************************************************)
MaxItems == 2

\* arxiv ids and score values used by direct calls of the CacheManager API
MaxCacheIds == 1

MaxCacheScore == 1

\* the clock, in units of the resolution of CURRENT_TIMESTAMP
MaxTime == 2

\* arxiv ids the score round trips are checked over
MaxStoreIds == 2

\* values a configuration entry can take
MaxConfigValue == 2

\* papers arXiv can return, the scores a rater can give them, the values of
\* top_k and max_selected, and the pipeline runs made on one cache
MaxPapers == 3

MaxScore == 2

MaxSelect == 2

MaxRuns == 2

\* PDF files the cache directory can hold
MaxFiles == 3

(***************************************************************************)
(* Values.                                                                 *)
(***************************************************************************)
None == [tag |-> "None"]

\* the message content the provider put in the result line of request_i
BatchContent(i) == [tag |-> "batch", of |-> i]

\* what process_single returns for input item i when the call succeeds
SingleContent(i) == [tag |-> "single", of |-> i]

Providers == {"openai", "ollama", "anthropic"}

TerminalStatuses == {"completed", "failed", "expired", "cancelled"}

\* how one line of the downloaded result file parses (client.py:296-314):
\*   ok         - no "error" key, response.body.choices[0].message.content
\*   error      - the line carries an "error" key
\*   body_error - response.body carries an "error" key
\*   malformed  - json.loads or a key lookup fails (JSONDecodeError/KeyError)
\*   crash      - the line raises another exception (empty choices list,
\*                null response), which the parse loop does not catch
LineKinds == {"ok", "error", "body_error", "malformed", "crash"}

VARIABLES
    \* ---- BaseClient.process_batch ----
    pb_pc,              \* position of the running process_batch call
    provider,           \* self.config.provider.lower()
    batch_config,       \* self.batch_config
    input_data_list,    \* the argument of process_batch
    jsonl,              \* the custom_ids written by _create_batch_jsonl
    polls,              \* status polls made by _wait_for_batch
    batch_info,         \* the batch_info returned by _wait_for_batch
    result_file,        \* the downloaded result file, a sequence of lines
    batch_results,      \* the list returned by _download_batch_results
    final_results,      \* the list returned by process_batch
    single_calls,       \* per input index, the process_single calls made
    raised,             \* the exception process_batch propagated, or "none"
    \* ---- CacheManager (cache.db) ----
    similarity_scores,  \* table similarity_scores, a set of rows
    rating_scores,      \* table rating_scores
    processed_papers,   \* table processed_papers
    config_history,     \* table config_history
    now,                \* CURRENT_TIMESTAMP
    db_locked,          \* a leaked connection holds an open write transaction
    cache_op,           \* the last CacheManager call and how it ended
    \* ---- run_pipeline (main.py) ----
    run_pc,             \* position of the running pipeline invocation
    run_config,         \* config["rate"] of the invocation
    papers,             \* the list of PaperMetadata carried through the run
    runs,               \* pipeline invocations started so far
    \* ---- a stage function that scores its papers through one batch job ----
    stage,              \* the stage function called last, or "none"
    stage_pc,           \* position of that call
    \* ---- the PDF cache directory ----
    pdf_cache,          \* its files, the least recently used one first
    pdf_op,             \* the last call on the directory
    \* ---- fetch_pdf (pipeline/fetch.py) ----
    fp_pc,              \* position of the running fetch_pdf call
    pdf_urls,           \* its argument
    fp_done,            \* the futures as_completed has yielded
    fp_results          \* its list results

pbVars == <<pb_pc, provider, batch_config, input_data_list, jsonl, polls,
            batch_info, result_file, batch_results, final_results,
            single_calls, raised>>

cacheVars == <<similarity_scores, rating_scores, processed_papers,
               config_history, now, db_locked, cache_op>>

runVars == <<run_pc, run_config, papers, runs>>

stageVars == <<stage, stage_pc>>

pdfVars == <<pdf_cache, pdf_op, fp_pc, pdf_urls, fp_done, fp_results>>

vars == <<pbVars, cacheVars, runVars, stageVars, pdfVars>>

\* what a step of process_batch leaves alone
BatchFrame == UNCHANGED <<cacheVars, runVars, stageVars, pdfVars>>

\* what a direct call of the CacheManager API leaves alone
CacheFrame == UNCHANGED <<pbVars, runVars, stageVars, pdfVars>>

\* what a step of run_pipeline leaves alone
RunFrame == UNCHANGED <<pbVars, now, db_locked, stageVars, pdfVars>>

(***************************************************************************)
(* BatchConfig.  The dataclass declares the field poll_intervall_seconds,  *)
(* while _wait_for_batch reads poll_interval_seconds: an instance of the   *)
(* dataclass has no such attribute (Missing); a duck-typed configuration   *)
(* object can carry it.                                                    *)
(***************************************************************************)
Missing == 0

BatchConfig ==
    [fallback_on_error : BOOLEAN,
     max_wait_hours : {1},
     poll_interval_seconds : {Missing, 1800, 3600}]

\* max_polls of _wait_for_batch
MaxPollsPerSecond(cfg) == cfg.max_wait_hours * 3600

max_polls(cfg) == (cfg.max_wait_hours * 3600) \div cfg.poll_interval_seconds

Range(s) == {s[k] : k \in DOMAIN s}

\* a fallback that calls process_single a second time for a listed index
CountCallsRetried(calls, idxs) ==
    [i \in DOMAIN calls |-> IF i \in idxs THEN calls[i] + 2 ELSE calls[i]]

\* one call of process_single per listed index
CountCalls(calls, idxs) ==
    [i \in DOMAIN calls |-> IF i \in idxs THEN calls[i] + 1 ELSE calls[i]]

(***************************************************************************)
(* _create_batch_jsonl: one request per input, custom_id request_<i>.      *)
(***************************************************************************)
_create_batch_jsonl(items) == [k \in 1..Len(items) |-> k - 1]

(***************************************************************************)
(* _download_batch_results, the parse loop and the reordering.             *)
(***************************************************************************)
\* results = {} ; for line in f: ... (custom_id -> content or None)
RECURSIVE ParseLines(_, _)
ParseLines(lines, results) ==
    IF lines = <<>> THEN results
    ELSE LET line == Head(lines)
             id == line.custom_id
             val == IF line.kind = "ok" THEN line.content ELSE None
         IN IF line.kind = "malformed"
            THEN ParseLines(Tail(lines), results)
            ELSE ParseLines(Tail(lines),
                     [c \in (DOMAIN results) \cup {id} |->
                         IF c = id THEN val ELSE results[c]])

EmptyDict == [c \in {} |-> None]

\* for i in range(len(results)): ordered_results.append(results.get(request_i))
OrderedResults(results) ==
    [k \in 1..Cardinality(DOMAIN results) |->
        IF (k - 1) \in DOMAIN results THEN results[k - 1] ELSE None]

\* the value _download_batch_results returns for a file it could parse
_download_batch_results(lines) == OrderedResults(ParseLines(lines, EmptyDict))

\* the parse loop only catches JSONDecodeError and KeyError
ParseRaises(lines) == \E k \in DOMAIN lines : lines[k].kind = "crash"

(***************************************************************************)
(* _retry_failed_items.  outcome is the set of sequence indices for which  *)
(* process_single returns a result; for the others it returns None.        *)
(***************************************************************************)
failed_indices(results) == {k \in DOMAIN results : results[k] = None}

\* a retry that does not look at fallback_on_error
RetryWhateverFallback(items, results, cfg, outcome) ==
    [k \in DOMAIN results |->
        IF results[k] = None /\ k \in outcome
        THEN SingleContent(items[k]) ELSE results[k]]

_retry_failed_items(items, results, cfg, outcome) ==
    IF ~cfg.fallback_on_error THEN results
    ELSE [k \in DOMAIN results |->
            IF results[k] = None /\ k \in outcome
            THEN SingleContent(items[k]) ELSE results[k]]

(***************************************************************************)
(* The result files a provider can produce for a job of n requests: any    *)
(* subset of the requests, in any order, each line of any kind.            *)
(***************************************************************************)
Line(id, kind) ==
    [custom_id |-> id, kind |-> kind,
     content |-> IF kind = "ok" THEN BatchContent(id) ELSE None]

ResultFiles(n) ==
    {f \in UNION {[1..m -> {Line(id, kind) : id \in 0..(n - 1), kind \in LineKinds}]
                    : m \in 0..n} :
        \A a, b \in DOMAIN f : a # b => f[a].custom_id # f[b].custom_id}

(***************************************************************************)
(* Initial state: a client has been constructed, no call is running.       *)
(***************************************************************************)
PbIdle ==
    /\ pb_pc = "idle"
    /\ provider = "openai"
    /\ batch_config = [fallback_on_error |-> TRUE, max_wait_hours |-> 1,
                       poll_interval_seconds |-> 1800]
    /\ input_data_list = <<>>
    /\ jsonl = <<>>
    /\ polls = 0
    /\ batch_info = [status |-> "none", output_file_id |-> FALSE]
    /\ result_file = <<>>
    /\ batch_results = <<>>
    /\ final_results = <<>>
    /\ single_calls = <<>>
    /\ raised = "none"

(***************************************************************************)
(* process_batch, first part (client.py:353-372): the provider check, and  *)
(* for a batch-capable provider the job file and the submission.           *)
(***************************************************************************)
ProcessBatchCall(n, prov, cfg, submit, outcome) ==
    /\ BatchFrame
    /\ pb_pc = "idle"
    /\ provider' = prov
    /\ batch_config' = cfg
    /\ input_data_list' = [k \in 1..n |-> k - 1]
    /\ polls' = 0
    /\ batch_info' = [status |-> "none", output_file_id |-> FALSE]
    /\ result_file' = <<>>
    /\ batch_results' = <<>>
    /\ IF prov \in {"ollama", "anthropic"}
       THEN /\ jsonl' = <<>>
            /\ IF cfg.fallback_on_error
               THEN /\ final_results' =
                          [k \in 1..n |-> IF k \in outcome THEN SingleContent(k - 1)
                                          ELSE None]
                    /\ single_calls' = [k \in 1..n |-> 1]
                    /\ pb_pc' = "returned"
                    /\ raised' = "none"
               ELSE /\ final_results' = <<>>
                    /\ single_calls' = [k \in 1..n |-> 0]
                    /\ pb_pc' = "raised"
                    /\ raised' = "ValueError"
       ELSE /\ final_results' = <<>>
            /\ single_calls' = [k \in 1..n |-> 0]
            /\ CASE submit = "create_raises" ->
                      \* _build_payload or the file write raised
                      /\ jsonl' = <<>>
                      /\ pb_pc' = "raised"
                      /\ raised' = "create"
                 [] submit = "submit_raises" ->
                      \* the upload or the job creation raised
                      /\ jsonl' = _create_batch_jsonl(input_data_list')
                      /\ pb_pc' = "raised"
                      /\ raised' = "submit"
                 [] OTHER ->
                      /\ jsonl' = _create_batch_jsonl(input_data_list')
                      /\ pb_pc' = "wait"
                      /\ raised' = "none"

(***************************************************************************)
(* _wait_for_batch (client.py:253-271), one status poll per step.          *)
(***************************************************************************)
WaitForBatch(status, has_file) ==
    /\ BatchFrame
    /\ pb_pc = "wait"
    /\ IF batch_config.poll_interval_seconds = Missing
       THEN \* AttributeError reading self.batch_config.poll_interval_seconds
            /\ pb_pc' = "raised"
            /\ raised' = "AttributeError"
            /\ UNCHANGED <<polls, batch_info>>
       ELSE IF polls >= max_polls(batch_config)
       THEN /\ pb_pc' = "raised"
            /\ raised' = "TimeoutError"
            /\ UNCHANGED <<polls, batch_info>>
       ELSE /\ polls' = polls + 1
            /\ CASE status = "http_error" ->
                      /\ pb_pc' = "raised"
                      /\ raised' = "wait"
                      /\ UNCHANGED batch_info
                 [] status \in TerminalStatuses ->
                      /\ batch_info' = [status |-> status,
                                        output_file_id |-> has_file]
                      /\ pb_pc' = "download"
                      /\ UNCHANGED raised
                 [] OTHER ->
                      \* not terminal: sleep and poll again
                      UNCHANGED <<pb_pc, raised, batch_info>>
    /\ UNCHANGED <<provider, batch_config, input_data_list, jsonl, result_file,
                   batch_results, final_results, single_calls>>

\* the guards of _download_batch_results (client.py:275-280): neither
\* RuntimeError is raised
HasOutputWhateverStatus(info) == info.output_file_id

HasOutput(info) == info.status = "completed" /\ info.output_file_id

(***************************************************************************)
(* _download_batch_results (client.py:273-322) followed, when it returns,  *)
(* by _retry_failed_items and the return of process_batch (376-385).       *)
(***************************************************************************)
DownloadAndRetry(file, http_ok, outcome) ==
    /\ BatchFrame
    /\ pb_pc = "download"
    /\ IF ~HasOutput(batch_info)
       THEN /\ pb_pc' = "raised"
            /\ raised' = "download"
            /\ UNCHANGED <<result_file, batch_results, final_results, single_calls>>
       ELSE IF ~http_ok
       THEN /\ pb_pc' = "raised"
            /\ raised' = "download"
            /\ UNCHANGED <<result_file, batch_results, final_results, single_calls>>
       ELSE /\ result_file' = file
            /\ IF ParseRaises(file)
               THEN /\ pb_pc' = "raised"
                    /\ raised' = "download"
                    /\ UNCHANGED <<batch_results, final_results, single_calls>>
               ELSE /\ batch_results' =
                          _download_batch_results(file)
                    /\ final_results' =
                          _retry_failed_items(input_data_list, batch_results',
                                              batch_config, outcome)
                    /\ single_calls' =
                          IF batch_config.fallback_on_error
                          THEN CountCalls(single_calls,
                                          failed_indices(batch_results'))
                          ELSE single_calls
                    /\ pb_pc' = "returned"
                    /\ UNCHANGED raised
    /\ UNCHANGED <<provider, batch_config, input_data_list, jsonl, polls,
                   batch_info>>

\* the locals of a finished process_batch call are gone
PbForget ==
    /\ provider' = "openai"
    /\ batch_config' = [fallback_on_error |-> TRUE, max_wait_hours |-> 1,
                        poll_interval_seconds |-> 1800]
    /\ input_data_list' = <<>>
    /\ jsonl' = <<>>
    /\ polls' = 0
    /\ batch_info' = [status |-> "none", output_file_id |-> FALSE]
    /\ result_file' = <<>>
    /\ batch_results' = <<>>
    /\ final_results' = <<>>
    /\ single_calls' = <<>>

\* the caller has taken the result (or the exception); the client is idle
PbReset ==
    /\ pb_pc' = "idle"
    /\ raised' = "none"
    /\ PbForget

(***************************************************************************)
(* process_single (client.py:387-396), called on its own.  how: the call   *)
(* succeeds, or _build_payload, _make_sync_request or _parse_response      *)
(* raises.                                                                 *)
(***************************************************************************)
SingleOutcomes == {"ok", "payload", "request", "parse"}

ProcessSingleUnguarded(item, how) ==
    IF how = "ok" THEN [result |-> SingleContent(item), exc |-> "none"]
    ELSE [result |-> None, exc |-> how]

process_single(item, how) ==
    IF how = "ok" THEN [result |-> SingleContent(item), exc |-> "none"]
    ELSE [result |-> None, exc |-> "none"]

ProcessSingleCall(item, how) ==
    /\ BatchFrame
    /\ pb_pc = "idle"
    /\ LET res == process_single(item, how)
       IN  /\ final_results' = <<res.result>>
           /\ raised' = res.exc
           /\ pb_pc' = IF res.exc = "none" THEN "single_returned"
                       ELSE "single_raised"
    /\ input_data_list' = <<item>>
    /\ single_calls' = <<1>>
    /\ UNCHANGED <<provider, batch_config, jsonl, polls, batch_info,
                   result_file, batch_results>>

ProcessBatchDone ==
    /\ BatchFrame
    /\ pb_pc \in {"returned", "raised", "single_returned", "single_raised"}
    /\ PbReset

NextBatch ==
    \/ \E n \in 1..MaxItems, prov \in Providers, cfg \in BatchConfig,
          submit \in {"ok", "create_raises", "submit_raises"} :
            \E outcome \in SUBSET (IF prov = "openai" THEN {} ELSE 1..n) :
                ProcessBatchCall(n, prov, cfg, submit, outcome)
    \/ \E status \in TerminalStatuses \cup {"in_progress", "http_error"},
          has_file \in BOOLEAN :
            WaitForBatch(status, has_file)
    \/ \E file \in ResultFiles(Len(input_data_list)), http_ok \in BOOLEAN :
            \E outcome \in SUBSET (IF ParseRaises(file) THEN {}
                                   ELSE failed_indices(_download_batch_results(file))) :
                DownloadAndRetry(file, http_ok, outcome)
    \/ \E item \in 0..(MaxItems - 1), how \in SingleOutcomes :
            ProcessSingleCall(item, how)
    \/ ProcessBatchDone

(***************************************************************************)
(* CacheManager (pipeline/cache.py).  A table is the set of its rows; the  *)
(* field "at" of a row is its timestamp column.  The field "under" of a    *)
(* score row is not stored by the code: it records the configuration the   *)
(* score was computed under, for the statements about stale scores.        *)
(***************************************************************************)
CacheIds == 1..MaxCacheIds
CacheScores == 1..MaxCacheScore
Times == 0..MaxTime

\* CacheConfig.ttl_days, in clock units
ttl_days == 1

\* _init_database: the timestamp column of each table
TimestampColumnAllCreatedAt ==
    [similarity_scores |-> "created_at", rating_scores |-> "created_at",
     processed_papers |-> "created_at", config_history |-> "created_at"]

TimestampColumn ==
    [similarity_scores |-> "created_at", rating_scores |-> "created_at",
     processed_papers |-> "processed_at", config_history |-> "created_at"]

\* INSERT OR IGNORE: the row already stored for the key stays
InsertOrIgnore(table, row) ==
    IF \E r \in table : r.arxiv_id = row.arxiv_id THEN table
    ELSE table \cup {row}

\* INSERT OR REPLACE on a table whose primary key is arxiv_id
Upsert(table, row) == {r \in table : r.arxiv_id # row.arxiv_id} \cup {row}

_init_database ==
    /\ similarity_scores = {}
    /\ rating_scores = {}
    /\ processed_papers = {}
    /\ config_history = {}

(***************************************************************************)
(* Configurations.  A dict is the sequence of its items in insertion       *)
(* order, a key being its rank in the sorted order of the key names.  An   *)
(* object that is not a dict (run_pipeline passes the RaterConfig          *)
(* dataclass) cannot be serialized by json.dumps.                          *)
(***************************************************************************)
ConfigItems ==
    {<<[key |-> 1, value |-> v], [key |-> 2, value |-> 1]>> : v \in 1..MaxConfigValue}
    \cup
    {<<[key |-> 2, value |-> 1], [key |-> 1, value |-> v]>> : v \in 1..MaxConfigValue}

DictConfigs == [type : {"dict"}, items : ConfigItems]

\* config["rate"] of run_pipeline, a RaterConfig dataclass
DataclassConfig(v) ==
    [type |-> "dataclass",
     items |-> <<[key |-> 1, value |-> v], [key |-> 2, value |-> 1]>>]

ConfigObjects == DictConfigs \cup {DataclassConfig(1)}

TypeError == [tag |-> "TypeError"]

\* json.dumps(config_dict, sort_keys=True): the items ordered by key
SortKeys(items) ==
    [k \in 1..Len(items) |->
        CHOOSE it \in Range(items) :
            Cardinality({o \in Range(items) : o.key < it.key}) = k - 1]

\* sha256 of the serialization; distinct serializations give distinct digests
_calculate_config_hash(config) ==
    IF config.type = "dict" THEN [sha256 |-> SortKeys(config.items)]
    ELSE TypeError

(***************************************************************************)
(* Reads.                                                                  *)
(***************************************************************************)
\* a Python float, as opposed to None
Float(x) == [tag |-> "float", value |-> x]

GetScore(table, arxiv_id) ==
    IF \E r \in table : r.arxiv_id = arxiv_id
    THEN Float((CHOOSE r \in table : r.arxiv_id = arxiv_id).score)
    ELSE None

get_similarity_score(arxiv_id) == GetScore(similarity_scores, arxiv_id)

get_rating_score(arxiv_id) == GetScore(rating_scores, arxiv_id)

IsPaperProcessedNever(arxiv_id) == FALSE

is_paper_processed(arxiv_id) == \E r \in processed_papers : r.arxiv_id = arxiv_id

\* the row of config_history inserted last (rowid is SQLite's implicit key)
NextRowid == Cardinality(config_history) + 1

\* the hash stored last, None before the first one
MostRecentHash ==
    IF config_history = {} THEN None
    ELSE (CHOOSE r \in config_history :
            \A y \in config_history : y.rowid <= r.rowid).config_hash

\* SELECT config_hash FROM config_history ORDER BY created_at DESC LIMIT 1:
\* the rows with the greatest created_at; SQL leaves the order of rows with
\* equal created_at open
LastHashes ==
    IF config_history = {} THEN {None}
    ELSE {r.config_hash : r \in {x \in config_history :
                                    \A y \in config_history : y.at <= x.at}}

(***************************************************************************)
(* Writes.  While a leaked connection holds its write transaction open,    *)
(* every write of another connection raises OperationalError (database is  *)
(* locked) and changes nothing.                                            *)
(***************************************************************************)
CacheCall(op, arg, exc) == cache_op' = [op |-> op, arg |-> arg, exc |-> exc]

\* a step that is not a call of the CacheManager API
NoCall == [op |-> "none", arg |-> 0, exc |-> "none"]

store_similarity_score(arxiv_id, score, under) ==
    IF db_locked THEN similarity_scores' = similarity_scores
    ELSE similarity_scores' =
            Upsert(similarity_scores, [arxiv_id |-> arxiv_id, score |-> score,
                                       at |-> now, under |-> under])

store_rating_score(arxiv_id, score, under) ==
    IF db_locked THEN rating_scores' = rating_scores
    ELSE rating_scores' =
            Upsert(rating_scores, [arxiv_id |-> arxiv_id, score |-> score,
                                   at |-> now, under |-> under])

\* a marker inserted without OR REPLACE into a table without primary key
MarkByPlainInsert(arxiv_id) ==
    processed_papers' =
        processed_papers \cup {[arxiv_id |-> arxiv_id, at |-> now]}

mark_paper_processed(arxiv_id) ==
    IF db_locked THEN processed_papers' = processed_papers
    ELSE processed_papers' =
            Upsert(processed_papers, [arxiv_id |-> arxiv_id, at |-> now])

StoreSimilarityScore(arxiv_id, score) ==
    /\ CacheFrame
    /\ store_similarity_score(arxiv_id, score, "api")
    /\ CacheCall("store_similarity_score", arxiv_id,
                 IF db_locked THEN "OperationalError" ELSE "none")
    /\ UNCHANGED <<rating_scores, processed_papers, config_history, now, db_locked>>

StoreRatingScore(arxiv_id, score) ==
    /\ CacheFrame
    /\ store_rating_score(arxiv_id, score, "api")
    /\ CacheCall("store_rating_score", arxiv_id,
                 IF db_locked THEN "OperationalError" ELSE "none")
    /\ UNCHANGED <<similarity_scores, processed_papers, config_history, now, db_locked>>

MarkPaperProcessed(arxiv_id) ==
    /\ CacheFrame
    /\ mark_paper_processed(arxiv_id)
    /\ CacheCall("mark_paper_processed", arxiv_id,
                 IF db_locked THEN "OperationalError" ELSE "none")
    /\ UNCHANGED <<similarity_scores, rating_scores, config_history, now, db_locked>>

(***************************************************************************)
(* detect_and_handle_config_changes (cache.py:247-280) with                *)
(* clear_all_cache(preserve_processed_papers=True) (cache.py:327-339).     *)
(* The result is the new content of the tables and the exception raised.   *)
(***************************************************************************)
\* a clear_all_cache that ignores preserve_processed_papers
ClearAllCacheDroppingMarkers(preserve_processed_papers) ==
    [similarity_scores |-> {}, rating_scores |-> {}, processed_papers |-> {}]

clear_all_cache(preserve_processed_papers) ==
    [similarity_scores |-> {},
     rating_scores |-> {},
     processed_papers |-> IF preserve_processed_papers THEN processed_papers
                          ELSE {}]

Unchanged(exc) ==
    [similarity_scores |-> similarity_scores, rating_scores |-> rating_scores,
     processed_papers |-> processed_papers, config_history |-> config_history,
     db_locked |-> db_locked, exc |-> exc]

detect_and_handle_config_changes(current_config, last_hash) ==
    LET current_hash == _calculate_config_hash(current_config)
        cleared == clear_all_cache(TRUE)
        \* the tables when the INSERT is reached
        sim == IF last_hash = None THEN similarity_scores
               ELSE cleared.similarity_scores
        rat == IF last_hash = None THEN rating_scores
               ELSE cleared.rating_scores
        pro == IF last_hash = None THEN processed_papers
               ELSE cleared.processed_papers
    IN  IF current_hash = TypeError THEN Unchanged("TypeError")
        ELSE IF last_hash = current_hash THEN Unchanged("none")
        ELSE IF db_locked
        THEN \* the first DELETE, or the INSERT of a first run, is refused
             Unchanged("OperationalError")
        ELSE IF \E r \in config_history : r.config_hash = current_hash
        THEN \* config_hash is the primary key: the INSERT is refused, and
             \* the connection is left with its transaction open
             [similarity_scores |-> sim, rating_scores |-> rat,
              processed_papers |-> pro, config_history |-> config_history,
              db_locked |-> TRUE, exc |-> "IntegrityError"]
        ELSE [similarity_scores |-> sim, rating_scores |-> rat,
              processed_papers |-> pro,
              config_history |-> config_history \cup
                    {[config_hash |-> current_hash, at |-> now,
                      rowid |-> NextRowid]},
              db_locked |-> db_locked, exc |-> "none"]

DetectAndHandleConfigChanges(current_config) ==
    /\ CacheFrame
    /\ \E last_hash \in LastHashes :
        LET res == detect_and_handle_config_changes(current_config, last_hash)
        IN  /\ similarity_scores' = res.similarity_scores
            /\ rating_scores' = res.rating_scores
            /\ processed_papers' = res.processed_papers
            /\ config_history' = res.config_history
            /\ db_locked' = res.db_locked
            /\ CacheCall("detect_and_handle_config_changes", current_config,
                         res.exc)
            /\ UNCHANGED now

(***************************************************************************)
(* cleanup_expired (cache.py:342-386).  The DELETEs run in one             *)
(* transaction that is committed after the last table; a DELETE naming a   *)
(* column the table does not have raises OperationalError, the function    *)
(* is left without commit, and the connection keeps the transaction open   *)
(* until it is collected, when the DELETEs are rolled back.                *)
(***************************************************************************)
CleanupTables == <<"similarity_scores", "rating_scores", "processed_papers">>

\* created_at < cutoff_timestamp compares 'YYYY-MM-DD HH:MM:SS' with the
\* isoformat 'YYYY-MM-DDTHH:MM:SS.ffffff' as strings: a row of the cutoff
\* date itself compares smaller, ' ' sorting before 'T'
Expired(row) == row.at <= now - ttl_days

cleanup_expired ==
    IF db_locked THEN Unchanged("OperationalError")
    ELSE IF \E k \in DOMAIN CleanupTables :
                TimestampColumn[CleanupTables[k]] # "created_at"
    THEN [Unchanged("OperationalError") EXCEPT !.db_locked = TRUE]
    ELSE [similarity_scores |-> {r \in similarity_scores : ~Expired(r)},
          rating_scores |-> {r \in rating_scores : ~Expired(r)},
          processed_papers |-> {r \in processed_papers : ~Expired(r)},
          config_history |-> config_history,
          db_locked |-> db_locked, exc |-> "none"]

CleanupExpired ==
    LET res == cleanup_expired
    IN  /\ CacheFrame
        /\ similarity_scores' = res.similarity_scores
        /\ rating_scores' = res.rating_scores
        /\ processed_papers' = res.processed_papers
        /\ config_history' = res.config_history
        /\ db_locked' = res.db_locked
        /\ CacheCall("cleanup_expired", 0, res.exc)
        /\ UNCHANGED now

\* the cyclic garbage collector closes the leaked connection, which rolls
\* its open transaction back
CollectGarbage ==
    /\ CacheFrame
    /\ db_locked
    /\ db_locked' = FALSE
    /\ cache_op' = NoCall
    /\ UNCHANGED <<similarity_scores, rating_scores, processed_papers,
                   config_history, now>>

\* time passes
Tick ==
    /\ CacheFrame
    /\ now < MaxTime
    /\ now' = now + 1
    /\ cache_op' = NoCall
    /\ UNCHANGED <<similarity_scores, rating_scores, processed_papers,
                   config_history, db_locked>>

CacheInit ==
    /\ _init_database
    /\ now = 0
    /\ db_locked = FALSE
    /\ cache_op = NoCall

NextCache ==
    \/ \E id \in CacheIds, score \in CacheScores : StoreSimilarityScore(id, score)
    \/ \E id \in CacheIds, score \in CacheScores : StoreRatingScore(id, score)
    \/ \E id \in CacheIds : MarkPaperProcessed(id)
    \/ \E config \in ConfigObjects : DetectAndHandleConfigChanges(config)
    \/ CleanupExpired
    \/ CollectGarbage
    \/ Tick

\* the calls that read, write or invalidate scores, over two ids and two
\* score values, at one moment of the clock
StoreIds == 1..MaxStoreIds

NextScores ==
    \/ \E id \in StoreIds, score \in 1..MaxScore : StoreSimilarityScore(id, score)
    \/ \E id \in StoreIds, score \in 1..MaxScore : StoreRatingScore(id, score)
    \/ \E config \in ConfigObjects : DetectAndHandleConfigChanges(config)
    \/ CleanupExpired
    \/ CollectGarbage

(***************************************************************************)
(* run_pipeline (main.py:304-454) and the selection funnel.  The Cacher    *)
(* of main.py is the CacheManager above.  A PaperMetadata carries          *)
(* arxiv_id, embed_score and llm_score; embed_under and llm_under are not  *)
(* fields of the code: they record the configuration the score was         *)
(* computed under.                                                         *)
(***************************************************************************)
Papers == 1..MaxPapers
Scores == 1..MaxScore

Strategies == {"embedder", "llm", "hybrid"}

RaterConfigs ==
    [content : 1..MaxConfigValue, strategy : Strategies,
     top_k : 1..MaxSelect, max_selected : 1..MaxSelect]

\* no invocation is running
NoConfig == [content |-> 0, strategy |-> "none", top_k |-> 0, max_selected |-> 0]

\* the subsequence of the elements of seq that satisfy keep, in order
RECURSIVE Filter(_, _)
Filter(seq, keep) ==
    IF seq = <<>> THEN <<>>
    ELSE IF Head(seq).arxiv_id \in keep
         THEN <<Head(seq)>> \o Filter(Tail(seq), keep)
         ELSE Filter(Tail(seq), keep)

Ids(seq) == {seq[k].arxiv_id : k \in DOMAIN seq}

\* seq[:n]
TakeWhole(seq, n) == seq

Take(seq, n) == SubSeq(seq, 1, IF n < Len(seq) THEN n ELSE Len(seq))

\* sorted(seq, key=field, reverse=True): descending, and stable, so that
\* elements with equal keys keep their order
RECURSIVE InsertDesc(_, _, _)
InsertDesc(sorted, p, field) ==
    IF sorted = <<>> THEN <<p>>
    ELSE IF Head(sorted)[field].value >= p[field].value
         THEN <<Head(sorted)>> \o InsertDesc(Tail(sorted), p, field)
         ELSE <<p>> \o sorted

RECURSIVE SortedDesc(_, _)
SortedDesc(seq, field) ==
    IF seq = <<>> THEN <<>>
    ELSE InsertDesc(SortedDesc(SubSeq(seq, 1, Len(seq) - 1), field),
                    seq[Len(seq)], field)

\* the ascending list of the papers of a set, as PaperMetadata with the
\* cached scores loaded (fetch_new_papers, step 6)
Under(table, id) ==
    IF \E r \in table : r.arxiv_id = id
    THEN (CHOOSE r \in table : r.arxiv_id = id).under
    ELSE 0

PaperMetadata(id) ==
    [arxiv_id |-> id,
     embed_score |-> get_similarity_score(id),
     llm_score |-> get_rating_score(id),
     embed_under |-> Under(similarity_scores, id),
     llm_under |-> Under(rating_scores, id)]

RECURSIVE LoadPapers(_, _)
LoadPapers(id, ids) ==
    IF id > MaxPapers THEN <<>>
    ELSE IF id \in ids THEN <<PaperMetadata(id)>> \o LoadPapers(id + 1, ids)
         ELSE LoadPapers(id + 1, ids)

\* the papers of seq that a rater scored, with the score set; rated maps
\* the arxiv ids of the successful results to their scores
RECURSIVE Rated(_, _, _, _, _)
Rated(seq, rated, field, ufield, content) ==
    IF seq = <<>> THEN <<>>
    ELSE IF Head(seq).arxiv_id \in DOMAIN rated
         THEN <<[Head(seq) EXCEPT ![field] = Float(rated[Head(seq).arxiv_id]),
                                  ![ufield] = content]>>
              \o Rated(Tail(seq), rated, field, ufield, content)
         ELSE Rated(Tail(seq), rated, field, ufield, content)

\* the table after store_..._score for every freshly scored paper
StoreAll(table, rated, content) ==
    IF db_locked THEN table
    ELSE
    {r \in table : r.arxiv_id \notin DOMAIN rated}
    \cup {[arxiv_id |-> id, score |-> rated[id], at |-> now, under |-> content]
            : id \in DOMAIN rated}

WithScore(seq, field) == Filter(seq, {seq[k].arxiv_id : k \in
                                        {j \in DOMAIN seq : seq[j][field] # None}})

ToRateWhole(seq, field) == seq

ToRate(seq, field) == Filter(seq, {seq[k].arxiv_id : k \in
                                        {j \in DOMAIN seq : seq[j][field] = None}})

(***************************************************************************)
(* select_papers_embed (main.py:136-179).  raises: rate_embed raised;      *)
(* rated: the successful results of rate_embed.                            *)
(***************************************************************************)
select_papers_embed(seq, rate_config, raises, rated) ==
    LET papers_with_score == WithScore(seq, "embed_score")
        papers_to_rate == ToRate(seq, "embed_score")
        scored == papers_with_score \o
                  Rated(papers_to_rate, rated, "embed_score", "embed_under",
                        rate_config.content)
    IN  IF papers_to_rate = <<>> THEN papers_with_score
        ELSE IF raises THEN papers_with_score
        ELSE IF Len(scored) < rate_config.top_k THEN scored
        ELSE Take(SortedDesc(scored, "embed_score"), rate_config.top_k)

(***************************************************************************)
(* select_papers_llm (main.py:181-226).                                    *)
(***************************************************************************)
select_papers_llm(seq, rate_config, raises, rated) ==
    LET papers_with_score == WithScore(seq, "llm_score")
        papers_to_rate == ToRate(seq, "llm_score")
        scored == papers_with_score \o
                  Rated(papers_to_rate, rated, "llm_score", "llm_under",
                        rate_config.content)
    IN  IF papers_to_rate = <<>>
        THEN Take(SortedDesc(papers_with_score, "llm_score"),
                  rate_config.max_selected)
        ELSE IF raises THEN papers_with_score
        ELSE IF Len(scored) <= rate_config.max_selected THEN scored
        ELSE Take(SortedDesc(scored, "llm_score"), rate_config.max_selected)

(***************************************************************************)
(* run_pipeline, step 0 (main.py:311-323): the configuration is loaded and *)
(* handed to detect_and_handle_config_changes; an exception of the call is *)
(* logged and the run goes on.                                             *)
(***************************************************************************)
RunPipelineStart(config) ==
    /\ RunFrame
    /\ run_pc \in {"idle", "returned", "raised", "delivered"}
    /\ runs < MaxRuns
    /\ runs' = runs + 1
    /\ run_config' = config
    /\ papers' = <<>>
    /\ run_pc' = "configured"
    /\ \E last_hash \in LastHashes :
        LET res == detect_and_handle_config_changes(
                        DataclassConfig(config.content), last_hash)
        IN  /\ similarity_scores' = res.similarity_scores
            /\ rating_scores' = res.rating_scores
            /\ processed_papers' = res.processed_papers
            /\ config_history' = res.config_history
            /\ CacheCall("detect_and_handle_config_changes",
                         DataclassConfig(config.content), res.exc)

(***************************************************************************)
(* fetch_new_papers (main.py:33-100) and the coarse parse_papers           *)
(* (main.py:102-134).  fetched: the papers arXiv returned whose PDF could  *)
(* be downloaded; parsed: those whose text could be extracted.             *)
(***************************************************************************)
FetchAndParse(fetched, parsed) ==
    /\ RunFrame
    /\ run_pc = "configured"
    /\ LET new_results == {id \in fetched : ~is_paper_processed(id)}
           valid_papers == LoadPapers(1, new_results)
       IN  /\ papers' = Filter(valid_papers, parsed)
           /\ run_pc' = IF papers' = <<>> THEN "exit" ELSE "parsed"
    /\ cache_op' = NoCall
    /\ UNCHANGED <<similarity_scores, rating_scores, processed_papers,
                   config_history, run_config, runs>>

(***************************************************************************)
(* run_pipeline, steps 5-7 (main.py:366-373).                              *)
(***************************************************************************)
RateEmbed(raises, rated) ==
    /\ RunFrame
    /\ run_pc = "parsed"
    /\ IF run_config.strategy \in {"embedder", "hybrid"}
       THEN /\ papers' = select_papers_embed(papers, run_config, raises, rated)
            /\ similarity_scores' =
                    IF raises THEN similarity_scores
                    ELSE StoreAll(similarity_scores, rated, run_config.content)
       ELSE /\ papers' = papers
            /\ similarity_scores' = similarity_scores
    /\ run_pc' = "embedded"
    /\ cache_op' = NoCall
    /\ UNCHANGED <<rating_scores, processed_papers, config_history,
                   run_config, runs>>

(***************************************************************************)
(* run_pipeline, steps 8-10 (main.py:375-390): the papers left after this  *)
(* step are the ones handed to summarization.                              *)
(***************************************************************************)
RateLLM(raises, rated) ==
    /\ RunFrame
    /\ run_pc = "embedded"
    /\ IF run_config.strategy \in {"llm", "hybrid"}
       THEN /\ papers' = select_papers_llm(papers, run_config, raises, rated)
            /\ rating_scores' =
                    IF raises THEN rating_scores
                    ELSE StoreAll(rating_scores, rated, run_config.content)
       ELSE /\ papers' = Take(SortedDesc(papers, "embed_score"),
                              run_config.max_selected)
            /\ rating_scores' = rating_scores
    /\ run_pc' = IF papers' = <<>> THEN "exit" ELSE "selected"
    /\ cache_op' = NoCall
    /\ UNCHANGED <<similarity_scores, processed_papers, config_history,
                   run_config, runs>>

(***************************************************************************)
(* summarize_paper (main.py:228-273): the papers with a summary are marked *)
(* processed.  summarized: the papers whose summarization succeeded.       *)
(***************************************************************************)
SummarizePaper(summarized) ==
    /\ RunFrame
    /\ run_pc = "selected"
    /\ papers' = Filter(papers, summarized)
    /\ processed_papers' =
            {r \in processed_papers : r.arxiv_id \notin Ids(papers')}
            \cup {[arxiv_id |-> id, at |-> now] : id \in Ids(papers')}
    /\ run_pc' = IF papers' = <<>> THEN "exit" ELSE "summarized"
    /\ cache_op' = NoCall
    /\ UNCHANGED <<similarity_scores, rating_scores, config_history,
                   run_config, runs>>

\* render and deliver (main.py:409-430), or one of the early exits of a run
\* that has no paper left (349-353, 360-364, 386-390, 403-407).  send_log is
\* the option of the loaded configuration: with it setup_logging returns a
\* log_file_path, and the early exit evaluates config[deliver], a lookup of
\* the function deliver in a dict whose keys are strings; the KeyError
\* reaches the except block (432-445), which raises it again.  delivery:
\* the summaries are rendered and mailed ("delivered"), deliver returns a
\* DeliveryResult without success, which run_pipeline does not look at
\* ("undelivered": the run returns as after an early exit), or render or
\* deliver raises ("raises").
Deliveries == {"delivered", "undelivered", "raises"}

RunPipelineEnd(send_log, delivery) ==
    /\ RunFrame
    /\ run_pc \in {"summarized", "exit"}
    /\ run_pc' = IF run_pc = "exit"
                 THEN (IF send_log THEN "raised" ELSE "returned")
                 ELSE CASE delivery = "delivered" -> "delivered"
                        [] delivery = "undelivered" -> "returned"
                        [] OTHER -> "raised"
    /\ papers' = <<>>
    /\ run_config' = NoConfig
    /\ cache_op' = NoCall
    /\ UNCHANGED <<similarity_scores, rating_scores, processed_papers,
                   config_history, runs>>

RunInit ==
    /\ run_pc = "idle"
    /\ run_config = NoConfig
    /\ papers = <<>>
    /\ runs = 0

\* the successful results of a rater for the papers it was given: any
\* subset of them, with any scores
RateResults(field) ==
    LET to_rate == Ids(ToRate(papers, field))
    IN  UNION {[ok -> Scores] : ok \in SUBSET to_rate}

Next ==
    \/ \E config \in RaterConfigs : RunPipelineStart(config)
    \/ \E fetched \in SUBSET Papers :
            \E parsed \in SUBSET fetched : FetchAndParse(fetched, parsed)
    \/ \E raises \in BOOLEAN, rated \in RateResults("embed_score") :
            RateEmbed(raises, rated)
    \/ \E raises \in BOOLEAN, rated \in RateResults("llm_score") :
            RateLLM(raises, rated)
    \/ \E summarized \in SUBSET Ids(papers) : SummarizePaper(summarized)
    \/ \E send_log \in BOOLEAN, delivery \in Deliveries :
            \* an early exit delivers nothing; the delivery does not read send_log
            /\ IF run_pc = "exit" THEN delivery = "undelivered" ELSE ~send_log
            /\ RunPipelineEnd(send_log, delivery)

(***************************************************************************)
(* An invocation on a cache that fails: a read of the cached scores of a   *)
(* paper raises (main.py:85-95), or the database is locked by a leaked     *)
(* connection while a stage stores its fresh scores (main.py:157-160,      *)
(* 204-207).  The rows in the cache were stored by earlier invocations.    *)
(***************************************************************************)
\* the PaperMetadata of a paper whose cached scores could not be read
Unread(id) ==
    [arxiv_id |-> id, embed_score |-> None, llm_score |-> None,
     embed_under |-> 0, llm_under |-> 0]

\* a loader that gives up the papers whose cached scores it cannot read
RECURSIVE LoadReadablePapers(_, _, _)
LoadReadablePapers(id, ids, read_error) ==
    IF id > MaxPapers THEN <<>>
    ELSE IF id \in ids \ read_error
         THEN <<PaperMetadata(id)>> \o LoadReadablePapers(id + 1, ids, read_error)
         ELSE LoadReadablePapers(id + 1, ids, read_error)

\* step 6 of fetch_new_papers; read_error: the papers for which
\* get_similarity_score or get_rating_score raises
RECURSIVE LoadCachedScores(_, _, _)
LoadCachedScores(id, ids, read_error) ==
    IF id > MaxPapers THEN <<>>
    ELSE IF id \in ids
         THEN <<IF id \in read_error THEN Unread(id) ELSE PaperMetadata(id)>>
              \o LoadCachedScores(id + 1, ids, read_error)
         ELSE LoadCachedScores(id + 1, ids, read_error)

FetchNewPapers(fetched, parsed, read_error) ==
    /\ RunFrame
    /\ run_pc = "configured"
    /\ LET new_results == {id \in fetched : ~is_paper_processed(id)}
           valid_papers == LoadCachedScores(1, new_results, read_error)
       IN  /\ papers' = Filter(valid_papers, parsed)
           /\ run_pc' = IF papers' = <<>> THEN "exit" ELSE "parsed"
    /\ cache_op' = NoCall
    /\ UNCHANGED <<similarity_scores, rating_scores, processed_papers,
                   config_history, run_config, runs>>

ErrorRunConfigs == {c \in RaterConfigs : c.content = 1 /\ c.strategy = "hybrid"}

NextStoreErrors ==
    \/ \E id \in CacheIds, score \in CacheScores : StoreSimilarityScore(id, score)
    \/ \E id \in CacheIds, score \in CacheScores : StoreRatingScore(id, score)
    \/ CleanupExpired
    \/ CollectGarbage
    \/ \E config \in ErrorRunConfigs : RunPipelineStart(config)
    \/ \E fetched \in SUBSET (1..MaxItems) :
            \E read_error \in SUBSET fetched :
                FetchNewPapers(fetched, fetched, read_error)
    \/ \E raises \in BOOLEAN, rated \in RateResults("embed_score") :
            RateEmbed(raises, rated)
    \/ \E raises \in BOOLEAN, rated \in RateResults("llm_score") :
            RateLLM(raises, rated)

(***************************************************************************)
(* Invocations that hand detect_and_handle_config_changes the rating       *)
(* configuration as the dict its signature declares (cache.py:247), go on  *)
(* when the call raises, as run_pipeline does (main.py:318-323), and store *)
(* the scores they compute.  A score row records in "under" the content of *)
(* the configuration of the invocation that stored it.                     *)
(***************************************************************************)
DictOf(content) ==
    [type |-> "dict", items |-> DataclassConfig(content).items]

ReconcileConfigs ==
    {c \in RaterConfigs :
        c.strategy = "embedder" /\ c.top_k = 1 /\ c.max_selected = 1}

Reconcile(config) ==
    /\ UNCHANGED <<pbVars, now, run_pc, papers, runs, stageVars, pdfVars>>
    /\ run_config' = config
    /\ \E last_hash \in LastHashes :
        LET res == detect_and_handle_config_changes(DictOf(config.content),
                                                    last_hash)
        IN  /\ similarity_scores' = res.similarity_scores
            /\ rating_scores' = res.rating_scores
            /\ processed_papers' = res.processed_papers
            /\ config_history' = res.config_history
            /\ db_locked' = res.db_locked
            /\ CacheCall("detect_and_handle_config_changes",
                         DictOf(config.content), res.exc)

StoreSimilarityUnderRun(arxiv_id, score) ==
    /\ CacheFrame
    /\ run_config # NoConfig
    /\ store_similarity_score(arxiv_id, score, run_config.content)
    /\ CacheCall("store_similarity_score", arxiv_id,
                 IF db_locked THEN "OperationalError" ELSE "none")
    /\ UNCHANGED <<rating_scores, processed_papers, config_history, now, db_locked>>

StoreRatingUnderRun(arxiv_id, score) ==
    /\ CacheFrame
    /\ run_config # NoConfig
    /\ store_rating_score(arxiv_id, score, run_config.content)
    /\ CacheCall("store_rating_score", arxiv_id,
                 IF db_locked THEN "OperationalError" ELSE "none")
    /\ UNCHANGED <<similarity_scores, processed_papers, config_history, now, db_locked>>

NextReconcile ==
    \/ \E config \in ReconcileConfigs : Reconcile(config)
    \/ \E id \in CacheIds, score \in CacheScores : StoreSimilarityUnderRun(id, score)
    \/ \E id \in CacheIds, score \in CacheScores : StoreRatingUnderRun(id, score)
    \/ CollectGarbage
    \/ Tick

(***************************************************************************)
(* The stage functions of main.py that hand their items to process_batch   *)
(* when the batch option of their configuration is set: select_papers_llm  *)
(* through rate_llm, summarize_paper through summarize, and parse_papers   *)
(* through parse_vlm.  The call of the stage function, the steps of its    *)
(* batch job and its return are successive steps.                          *)
(***************************************************************************)
Stages == {"select_papers_llm", "summarize_paper", "parse_papers"}

\* the page images _pdf_to_images extracts from one PDF
PagesPerPdf == 1

\* the configurations of the rater the stage is called with
StageConfigs ==
    {c \in RaterConfigs : c.strategy = "llm" /\ c.top_k = 1 /\ c.content = 1}

\* the number of items the stage function passes to process_batch
StageItems(stg, seq) ==
    CASE stg = "select_papers_llm" -> Len(ToRate(seq, "llm_score"))
      [] stg = "summarize_paper" -> Len(seq)
      [] OTHER -> Len(seq) * PagesPerPdf

\* the rating a result content stands for.  The content of the result line
\* of request_i is the numeral of i + 1, passed on as a str by
\* _download_batch_results; process_single returns the parsed float.
RatingOf(content) ==
    [tag |-> IF content.tag = "batch" THEN "str" ELSE "float",
     value |-> content.of + 1]

\* rate_llm, batch path (rate.py:391-415)
rate_llm(results, exc) ==
    IF exc # "none"
    THEN <<[success |-> FALSE, score |-> Float(0)]>>
    ELSE [k \in DOMAIN results |->
            [success |-> results[k] # None,
             score |-> IF results[k] # None THEN RatingOf(results[k])
                       ELSE Float(0)]]

\* for paper, result in zip(papers_to_rate, rate_results): the papers whose
\* result is a success, with the score set (main.py:200-204)
\* a loop that takes the score of every result, failed ones included
RECURSIVE ZipRatedWhatever(_, _, _)
ZipRatedWhatever(to_rate, rate_results, content) ==
    IF to_rate = <<>> \/ rate_results = <<>> THEN <<>>
    ELSE <<[Head(to_rate) EXCEPT !.llm_score = Head(rate_results).score,
                                 !.llm_under = content]>>
         \o ZipRatedWhatever(Tail(to_rate), Tail(rate_results), content)

RECURSIVE ZipRated(_, _, _)
ZipRated(to_rate, rate_results, content) ==
    IF to_rate = <<>> \/ rate_results = <<>> THEN <<>>
    ELSE (IF Head(rate_results).success
          THEN <<[Head(to_rate) EXCEPT !.llm_score = Head(rate_results).score,
                                       !.llm_under = content]>>
          ELSE <<>>)
         \o ZipRated(Tail(to_rate), Tail(rate_results), content)

\* sorted() raises TypeError when it has to compare a str with a float
SortRaises(seq, field) ==
    \E a, b \in DOMAIN seq : seq[a][field].tag # seq[b][field].tag

\* select_papers_llm with papers to rate and rate_llm on its batch path
\* (main.py:196-226); the except branch returns papers_with_score with the
\* papers appended so far
select_papers_llm_batch(seq, rate_config, rate_results) ==
    LET papers_with_score ==
            WithScore(seq, "llm_score")
            \o ZipRated(ToRate(seq, "llm_score"), rate_results,
                        rate_config.content)
    IN  IF Len(papers_with_score) <= rate_config.max_selected
        THEN papers_with_score
        ELSE IF SortRaises(papers_with_score, "llm_score")
        THEN papers_with_score
        ELSE Take(SortedDesc(papers_with_score, "llm_score"),
                  rate_config.max_selected)

\* the scores select_papers_llm hands to store_rating_score
FreshScores(seq, rate_results, content) ==
    LET fresh == ZipRated(ToRate(seq, "llm_score"), rate_results, content)
    IN  [id \in Ids(fresh) |->
            fresh[CHOOSE k \in DOMAIN fresh : fresh[k].arxiv_id = id]
                .llm_score.value]

\* summarize, batch path (summarize.py:109-129)
summarize(n, results, exc) ==
    IF exc # "none"
    THEN [k \in 1..n |-> [success |-> FALSE]]
    ELSE [k \in DOMAIN results |-> [success |-> results[k] # None]]

\* zip(seq, results): the elements of seq whose result is a success
ZipWhole(seq, results) == seq

RECURSIVE ZipSuccess(_, _)
ZipSuccess(seq, results) ==
    IF seq = <<>> \/ results = <<>> THEN <<>>
    ELSE (IF Head(results).success THEN <<Head(seq)>> ELSE <<>>)
         \o ZipSuccess(Tail(seq), Tail(results))

\* summarize_paper (main.py:228-273): the papers with a summary
summarize_paper(seq, results, exc) ==
    [papers |-> ZipSuccess(seq, summarize(Len(seq), results, exc)),
     exc |-> "none"]

\* _reconstruct_results (parse.py:121-158): the slice of the pages of PDF k
\* holds no None
_reconstruct_results(vlm_results, n) ==
    [k \in 1..n |->
        [success |->
            \A j \in ((k - 1) * PagesPerPdf + 1)..(k * PagesPerPdf) :
                j \in DOMAIN vlm_results => vlm_results[j] # None]]

\* parse_papers with vlm (main.py:102-134): parse_vlm lets an exception of
\* process_batch through (parse.py:247), the except of parse_papers takes it
ParsePapersUncaught(seq, vlm_results, exc) ==
    IF exc # "none"
    THEN [papers |-> <<>>, exc |-> exc]
    ELSE [papers |-> ZipSuccess(seq, _reconstruct_results(vlm_results, Len(seq))),
          exc |-> "none"]

parse_papers(seq, vlm_results, exc) ==
    IF exc # "none"
    THEN [papers |-> <<>>, exc |-> "none"]
    ELSE [papers |-> ZipSuccess(seq, _reconstruct_results(vlm_results, Len(seq))),
          exc |-> "none"]

\* the stage function is called with the papers ids, loaded as
\* fetch_new_papers loads them
StageCall(stg, ids, config) ==
    /\ stage_pc # "running"
    /\ PbReset
    /\ LET loaded == LoadPapers(1, ids)
       IN  /\ StageItems(stg, loaded) \in 1..MaxItems
           /\ papers' = loaded
    /\ run_config' = config
    /\ stage' = stg
    /\ stage_pc' = "running"
    /\ UNCHANGED <<cacheVars, run_pc, runs, pdfVars>>

\* the stage function takes the result of process_batch, or its exception,
\* and returns
StageReturn ==
    /\ stage_pc = "running"
    /\ pb_pc \in {"returned", "raised"}
    /\ CASE stage = "select_papers_llm" ->
              LET rate_results == rate_llm(final_results, raised)
                  fresh == FreshScores(papers, rate_results, run_config.content)
              IN  /\ papers' = select_papers_llm_batch(papers, run_config,
                                                       rate_results)
                  /\ rating_scores' =
                        IF db_locked THEN rating_scores
                        ELSE {r \in rating_scores : r.arxiv_id \notin DOMAIN fresh}
                             \cup {[arxiv_id |-> id, score |-> fresh[id],
                                    at |-> now, under |-> run_config.content]
                                    : id \in DOMAIN fresh}
                  /\ stage_pc' = "returned"
                  /\ UNCHANGED processed_papers
         [] stage = "summarize_paper" ->
              LET res == summarize_paper(papers, final_results, raised)
              IN  /\ papers' = res.papers
                  /\ processed_papers' =
                        {r \in processed_papers : r.arxiv_id \notin Ids(res.papers)}
                        \cup {[arxiv_id |-> id, at |-> now] : id \in Ids(res.papers)}
                  /\ stage_pc' = "returned"
                  /\ UNCHANGED rating_scores
         [] OTHER ->
              LET res == parse_papers(papers, final_results, raised)
              IN  /\ papers' = res.papers
                  /\ stage_pc' = IF res.exc = "none" THEN "returned" ELSE "raised"
                  /\ UNCHANGED <<rating_scores, processed_papers>>
    /\ PbForget
    /\ UNCHANGED <<pb_pc, raised, similarity_scores, config_history, now,
                   db_locked, cache_op, run_pc, run_config, runs, stage,
                   pdfVars>>

StageInit ==
    /\ stage = "none"
    /\ stage_pc = "idle"

NextRate ==
    \/ \E stg \in Stages, ids \in SUBSET (1..MaxItems), config \in StageConfigs :
            StageCall(stg, ids, config)
    \/ \E prov \in Providers, cfg \in BatchConfig,
          submit \in {"ok", "create_raises", "submit_raises"} :
            \E outcome \in SUBSET (IF prov = "openai" THEN {}
                                   ELSE 1..StageItems(stage, papers)) :
                /\ stage_pc = "running"
                /\ ProcessBatchCall(StageItems(stage, papers), prov, cfg,
                                    submit, outcome)
    \/ \E status \in TerminalStatuses \cup {"in_progress", "http_error"},
          has_file \in BOOLEAN :
            WaitForBatch(status, has_file)
    \/ \E file \in ResultFiles(Len(input_data_list)), http_ok \in BOOLEAN :
            \E outcome \in SUBSET (IF ParseRaises(file) THEN {}
                                   ELSE failed_indices(_download_batch_results(file))) :
                DownloadAndRetry(file, http_ok, outcome)
    \/ StageReturn

(***************************************************************************)
(* Specifications.                                                         *)
(***************************************************************************)
(***************************************************************************)
(* The PDF cache directory of the Cacher (cacher.pdf_cache_dir,            *)
(* main.py:64) and cleanup_pdf_cache, which fetch_new_papers calls with    *)
(* the URLs of the papers it returns (main.py:79-81).  pipeline/cache.py   *)
(* does not carry the method; it is modelled from its specification        *)
(* (spec.md, evictLargeArtifacts).  Sizes are in MB.  run_pipeline above   *)
(* leaves the directory out: no score and no marker depends on it.         *)
(***************************************************************************)
PdfUrls == 1..MaxFiles

FileSizes == {250, 400, 600}

\* the size budget of the directory
Budgets == {512, 1024}

\* the fixed margin and the fraction of the budget, in tenths
MarginMB == 128

TargetTenths == 8

NoPdfCall == [op |-> "none", keep |-> {}, budget |-> 0, before |-> 0]

RECURSIVE TotalSize(_)
TotalSize(files) ==
    IF files = <<>> THEN 0 ELSE Head(files).size + TotalSize(Tail(files))

\* the sequence without its k-th element
Without(files, k) == SubSeq(files, 1, k - 1) \o SubSeq(files, k + 1, Len(files))

\* a target that is the budget itself
TargetIsBudget(budget) == budget

\* the size eviction stops at: the fraction of the budget or the budget
\* minus the margin, whichever is larger
Target(budget) ==
    LET fraction == (budget * TargetTenths) \div 10
        margin == budget - MarginMB
    IN  IF fraction >= margin THEN fraction ELSE margin

\* delete the least recently used file that is not kept, until the target
\* is reached or only kept files are left
RECURSIVE EvictLRU(_, _, _)
EvictLRU(files, keep, target) ==
    IF TotalSize(files) <= target THEN files
    ELSE IF \A k \in DOMAIN files : files[k].url \in keep THEN files
    ELSE LET k == CHOOSE i \in DOMAIN files :
                    /\ files[i].url \notin keep
                    /\ \A j \in 1..(i - 1) : files[j].url \in keep
         IN  EvictLRU(Without(files, k), keep, target)

cleanup_pdf_cache(files, used_pdf_urls, budget) ==
    IF TotalSize(files) <= budget THEN files
    ELSE EvictLRU(files, used_pdf_urls, Target(budget))

\* fetch_pdf puts the PDF of a URL into the directory; a file that is
\* there already is used again, which makes it the most recently used one
FetchPdf(url, size) ==
    /\ UNCHANGED <<pbVars, cacheVars, runVars, stageVars>>
    /\ pdf_cache' =
        IF \E k \in DOMAIN pdf_cache : pdf_cache[k].url = url
        THEN LET k == CHOOSE i \in DOMAIN pdf_cache : pdf_cache[i].url = url
             IN  Append(Without(pdf_cache, k), pdf_cache[k])
        ELSE Append(pdf_cache, [url |-> url, size |-> size])
    /\ pdf_op' = NoPdfCall
    /\ UNCHANGED <<fp_pc, pdf_urls, fp_done, fp_results>>

CleanupPdfCache(used_pdf_urls, budget) ==
    /\ UNCHANGED <<pbVars, cacheVars, runVars, stageVars>>
    /\ pdf_cache' = cleanup_pdf_cache(pdf_cache, used_pdf_urls, budget)
    /\ pdf_op' = [op |-> "cleanup_pdf_cache", keep |-> used_pdf_urls,
                  budget |-> budget, before |-> TotalSize(pdf_cache)]
    /\ UNCHANGED <<fp_pc, pdf_urls, fp_done, fp_results>>

PdfInit ==
    /\ pdf_cache = <<>>
    /\ pdf_op = NoPdfCall
    /\ fp_pc = "idle"
    /\ pdf_urls = <<>>
    /\ fp_done = {}
    /\ fp_results = <<>>

NextPdf ==
    \/ \E url \in PdfUrls, size \in FileSizes : FetchPdf(url, size)
    \/ \E used_pdf_urls \in SUBSET PdfUrls, budget \in Budgets :
            CleanupPdfCache(used_pdf_urls, budget)

(***************************************************************************)
(* fetch_pdf (fetch.py:300-348).  One future per index of pdf_urls is      *)
(* submitted to a ThreadPoolExecutor of min(4, len(pdf_urls)) workers;     *)
(* as_completed yields the futures in the order they finish, and each      *)
(* result, or the failure result built for an exception, is stored at the  *)
(* index of its future.  The constructor of ThreadPoolExecutor raises      *)
(* ValueError when max_workers is 0.                                       *)
(***************************************************************************)
\* the lists fetch_new_papers hands to fetch_pdf: it returns before the call
\* when no fetched paper is new, so the list has at least one URL
UrlLists == UNION {[1..n -> PdfUrls] : n \in 1..MaxFiles}

\* how the future of one URL ends: _download_and_extract_single returns a
\* result with or without text, or future.result raises TimeoutError or
\* another exception
WorkerOutcomes == {"success", "failure", "timeout", "raises"}

FetchResult(pdf_url, extraction_success) ==
    [pdf_url |-> pdf_url, extraction_success |-> extraction_success]

\* the minimum of 4 and the number of URLs
max_workers(urls) == IF Len(urls) < 4 THEN Len(urls) ELSE 4

\* a result stored at the first free slot, in the order of completion
PlaceInCompletionOrder(results, index, result) ==
    LET k == CHOOSE i \in DOMAIN results :
                /\ results[i] = None
                /\ \A j \in 1..(i - 1) : results[j] # None
    IN  [results EXCEPT ![k] = result]

\* results[index] = result
Place(results, index, result) == [results EXCEPT ![index] = result]

FetchPdfCall(urls) ==
    /\ UNCHANGED <<pbVars, cacheVars, runVars, stageVars, pdf_cache, pdf_op>>
    /\ fp_pc # "running"
    /\ pdf_urls' = urls
    /\ fp_done' = {}
    /\ fp_results' = [k \in 1..Len(urls) |-> None]
    /\ fp_pc' = IF max_workers(urls) <= 0 THEN "raised" ELSE "running"

\* as_completed yields the future of index, which ended with outcome
FutureCompleted(index, outcome) ==
    /\ UNCHANGED <<pbVars, cacheVars, runVars, stageVars, pdf_cache, pdf_op>>
    /\ fp_pc = "running"
    /\ index \in DOMAIN pdf_urls \ fp_done
    /\ fp_done' = fp_done \cup {index}
    /\ fp_results' = Place(fp_results, index,
                           FetchResult(pdf_urls[index], outcome = "success"))
    /\ UNCHANGED <<fp_pc, pdf_urls>>

FetchPdfReturn ==
    /\ UNCHANGED <<pbVars, cacheVars, runVars, stageVars, pdf_cache, pdf_op>>
    /\ fp_pc = "running"
    /\ fp_done = DOMAIN pdf_urls
    /\ fp_pc' = "returned"
    /\ UNCHANGED <<pdf_urls, fp_done, fp_results>>

NextFetch ==
    \/ \E urls \in UrlLists : FetchPdfCall(urls)
    \/ \E index \in 1..MaxFiles, outcome \in WorkerOutcomes :
            FutureCompleted(index, outcome)
    \/ FetchPdfReturn

Init == PbIdle /\ CacheInit /\ RunInit /\ StageInit /\ PdfInit

Spec == Init /\ [][Next]_vars

SpecBatch == Init /\ [][NextBatch]_vars

SpecCache == Init /\ [][NextCache]_vars

SpecRate == Init /\ [][NextRate]_vars

SpecScores == Init /\ [][NextScores]_vars

SpecPdf == Init /\ [][NextPdf]_vars

SpecFetch == Init /\ [][NextFetch]_vars

SpecReconcile == Init /\ [][NextReconcile]_vars

SpecStoreErrors == Init /\ [][NextStoreErrors]_vars

(***************************************************************************)
(* Properties of process_batch (SpecBatch).                                *)
(***************************************************************************)
\* the content of the ok line of request_i in the downloaded file, if any
HasOkLine(i) ==
    \E k \in DOMAIN result_file :
        result_file[k].custom_id = i /\ result_file[k].kind = "ok"

\* C1: a list returned by process_batch has exactly one entry per input
\* item, whatever subset of the items the result file contains.
C1_OutputLengthEqualsInput ==
    pb_pc = "returned" => Len(final_results) = Len(input_data_list)

\* C2: with fallback_on_error, a failure to build the job file or to submit
\* the batch does not make process_batch raise.
C2_SubmitFailureFallsBack ==
    (pb_pc = "raised" /\ raised \in {"create", "submit"})
        => ~batch_config.fallback_on_error

\* C3: with fallback_on_error, a job that ends failed, expired or cancelled,
\* or a result file that cannot be downloaded or parsed, does not make
\* process_batch raise.
C3_DownloadFailureFallsBack ==
    (pb_pc = "raised" /\ raised = "download")
        => ~batch_config.fallback_on_error

\* C8: the list built from the result file holds, at index i, the content of
\* the line of request_i and nothing else, and every item whose line is
\* usable has its content at its own index, whatever happened to the lines
\* of the other items.
C8_ResultsAtOwnIndex ==
    (pb_pc = "returned" /\ provider = "openai") =>
        \A i \in 0..(Len(input_data_list) - 1) :
            /\ (i + 1 \in DOMAIN batch_results /\ batch_results[i + 1] # None)
                    => (HasOkLine(i) /\ batch_results[i + 1] = BatchContent(i))
            /\ HasOkLine(i)
                    => (i + 1 \in DOMAIN batch_results
                        /\ batch_results[i + 1] = BatchContent(i))

\* C14: on ollama and anthropic, process_batch returns what process_single
\* returns for each item, in input order, whatever fallback_on_error; it
\* never raises for the lack of batch support.
C14_NoBatchProviderIsSequential ==
    (provider \in {"ollama", "anthropic"} /\ pb_pc \in {"returned", "raised"})
        => /\ pb_pc = "returned"
           /\ Len(final_results) = Len(input_data_list)
           /\ \A k \in DOMAIN input_data_list :
                /\ single_calls[k] = 1
                /\ final_results[k] \in {SingleContent(input_data_list[k]), None}

\* C15: without fallback_on_error, a batch job that ends failed, expired or
\* cancelled makes process_batch raise: no result is returned for any item
\* and process_single is not called.
C15_NonCompletedIsHardFailure ==
    (/\ provider = "openai"
     /\ ~batch_config.fallback_on_error
     /\ batch_info.status \in TerminalStatuses \ {"completed"}
     /\ pb_pc # "download")
        => /\ pb_pc = "raised"
           /\ final_results = <<>>
           /\ \A k \in DOMAIN single_calls : single_calls[k] = 0

\* C15 witness: process_batch has raised on a failed job, fallback_on_error
\* being false.
C15_Witness ==
    /\ pb_pc = "raised"
    /\ raised = "download"
    /\ batch_info.status = "failed"
    /\ ~batch_config.fallback_on_error
    /\ Len(input_data_list) = MaxItems

\* the bound (max_wait_hours * 3600) div poll_interval_seconds of the
\* running call; no poll is made when the attribute cannot be read
PollBound ==
    IF batch_config.poll_interval_seconds = Missing THEN 0
    ELSE (batch_config.max_wait_hours * 3600)
            \div batch_config.poll_interval_seconds

BatchSends(i) == Cardinality({k \in DOMAIN jsonl : jsonl[k] = i})

\* C33: in a process_batch call every input item is sent to the provider
\* at most twice: by at most one request of the batch job and by at most
\* one process_single call, also when that call returns no result.
C33_SentAtMostTwice ==
    \A k \in DOMAIN single_calls :
        /\ BatchSends(input_data_list[k]) <= 1
        /\ single_calls[k] <= 1
        /\ BatchSends(input_data_list[k]) + single_calls[k] <= 2

\* C33 witness: process_batch has returned; item 0 was sent in the batch
\* job and once more by the fallback, which returned no result for it.
C33_Witness ==
    /\ pb_pc = "returned"
    /\ Len(input_data_list) = 2
    /\ BatchSends(0) = 1
    /\ single_calls[1] = 1
    /\ final_results[1] = None

\* C39: when process_batch returns from its batch path, the list of
\* _retry_failed_items has the length of the batch results and holds every
\* batch result that is not None at its index; the batch results are still
\* the list that was downloaded; and without fallback_on_error the list is
\* the batch results and process_single was not called.
C39_RetryChangesOnlyNone ==
    (pb_pc = "returned" /\ provider = "openai")
        => /\ Len(final_results) = Len(batch_results)
           /\ \A k \in DOMAIN batch_results :
                batch_results[k] # None => final_results[k] = batch_results[k]
           /\ batch_results = _download_batch_results(result_file)
           /\ ~batch_config.fallback_on_error
                => /\ final_results = batch_results
                   /\ \A k \in DOMAIN single_calls : single_calls[k] = 0

\* C39 witness: process_batch has returned; the batch results hold the
\* content of request_0 and None for request_1, and the retry has put the
\* result of process_single in the second slot only.
C39_Witness ==
    /\ pb_pc = "returned"
    /\ provider = "openai"
    /\ batch_results = <<BatchContent(0), None>>
    /\ final_results = <<BatchContent(0), SingleContent(1)>>

IsDetectCall ==
    /\ cache_op'.op = "detect_and_handle_config_changes"
    /\ cache_op'.arg.type = "dict"
    /\ ~db_locked

\* no two stored hashes carry the same timestamp
DistinctTimestamps ==
    \A x, y \in config_history : x.at = y.at => x = y

\* C9: after a call of detect_and_handle_config_changes(C) in which hash(C)
\* differs from the hash stored last, the hash stored last is hash(C)
\* (stated for a history whose timestamps are distinct).
C9_NewHashIsRecorded ==
    [][(IsDetectCall /\ DistinctTimestamps
        /\ _calculate_config_hash(cache_op'.arg) # MostRecentHash)
            => MostRecentHash' = _calculate_config_hash(cache_op'.arg)]_vars

\* C10: detect_and_handle_config_changes empties both score tables exactly
\* when a hash was stored before and the hash stored last differs from the
\* current one; on the first call and on a call with the hash stored last
\* the score tables are unchanged, and the history is unchanged but for the
\* first hash.
C10_ClearsExactlyOnChange ==
    [][IsDetectCall =>
        LET current_hash == _calculate_config_hash(cache_op'.arg)
        IN  IF MostRecentHash # None /\ MostRecentHash # current_hash
            THEN similarity_scores' = {} /\ rating_scores' = {}
            ELSE /\ similarity_scores' = similarity_scores
                 /\ rating_scores' = rating_scores
                 /\ IF MostRecentHash = None
                    THEN {r.config_hash : r \in config_history'} = {current_hash}
                    ELSE config_history' = config_history]_vars

\* C11: detect_and_handle_config_changes never adds, removes or changes a
\* processed marker, whether the call is a first run, sees a changed hash or
\* an unchanged one.
C11_DetectKeepsMarkers ==
    [][cache_op'.op = "detect_and_handle_config_changes"
            => processed_papers' = processed_papers]_vars

\* C11 witness: a call with a changed hash has completed while a processed
\* marker is stored.
C11_Witness ==
    /\ cache_op.op = "detect_and_handle_config_changes"
    /\ cache_op.exc = "none"
    /\ Cardinality(config_history) >= 2
    /\ processed_papers # {}

\* what cleanup_expired has to do to a table: the records older than
\* ttl_days are gone, the younger ones are kept, nothing is added
Expires(table, after) ==
    /\ after \subseteq table
    /\ \A r \in table : r.at < now - ttl_days => r \notin after
    /\ \A r \in table : r.at > now - ttl_days => r \in after

\* C26: a call of cleanup_expired, made while no other connection holds
\* the database, removes from the two score tables and from the processed
\* records every record older than ttl_days and none that is younger, and
\* leaves the history of configuration hashes as it is.
C26_CleanupDeletesExpired ==
    [][(cache_op'.op = "cleanup_expired" /\ ~db_locked)
        => /\ Expires(similarity_scores, similarity_scores')
           /\ Expires(rating_scores, rating_scores')
           /\ Expires(processed_papers, processed_papers')
           /\ config_history' = config_history]_vars

\* the calls after which a score of the kind may read differently: a
\* store for the same kind and id, and the invalidations
MayChange(op, id) ==
    \/ cache_op'.op = op /\ cache_op'.arg = id
    \/ cache_op'.op \in {"detect_and_handle_config_changes", "cleanup_expired"}

\* C27: for each kind of score, a store of s for an id that returns makes
\* the next read of that id return s, whatever was stored before; the value
\* read for a kind and id changes only in a store for that kind and id or
\* in an invalidation; and no table ever holds two records for one id.
C27_ScoreRoundTrip ==
    /\ [](\A id \in StoreIds :
            /\ Cardinality({r \in similarity_scores : r.arxiv_id = id}) <= 1
            /\ Cardinality({r \in rating_scores : r.arxiv_id = id}) <= 1)
    /\ [][\A id \in StoreIds :
            /\ \A s \in 1..MaxScore :
                /\ (StoreSimilarityScore(id, s) /\ cache_op'.exc = "none")
                        => get_similarity_score(id)' = Float(s)
                /\ (StoreRatingScore(id, s) /\ cache_op'.exc = "none")
                        => get_rating_score(id)' = Float(s)
            /\ get_similarity_score(id)' # get_similarity_score(id)
                    => MayChange("store_similarity_score", id)
            /\ get_rating_score(id)' # get_rating_score(id)
                    => MayChange("store_rating_score", id)]_vars

\* C27 witness: a store of a rating score for id 1 has returned while the
\* similarity score of id 1 and the rating score of id 2 hold another value.
C27_Witness ==
    /\ cache_op = [op |-> "store_rating_score", arg |-> 1, exc |-> "none"]
    /\ get_rating_score(1) = Float(2)
    /\ get_similarity_score(1) = Float(1)
    /\ get_rating_score(2) = Float(1)

\* the markers stored for an id
MarkersOf(table, arxiv_id) == {r \in table : r.arxiv_id = arxiv_id}

\* C28: no state holds two processed markers for one id; a call of
\* mark_paper_processed that returns leaves exactly one marker for its id
\* and is_paper_processed true, and when the id was marked already the set
\* of marked ids is the one before the call.
C28_MarkIdempotent ==
    /\ [](\A id \in CacheIds : Cardinality(MarkersOf(processed_papers, id)) <= 1)
    /\ [][\A id \in CacheIds :
            (MarkPaperProcessed(id) /\ cache_op'.exc = "none")
                => /\ Cardinality(MarkersOf(processed_papers', id)) = 1
                   /\ is_paper_processed(id)'
                   /\ Cardinality(MarkersOf(processed_papers, id)) >= 1
                        => {r.arxiv_id : r \in processed_papers'}
                                = {r.arxiv_id : r \in processed_papers}]_vars

\* C28 witness: mark_paper_processed has returned at the last moment of the
\* clock and the one marker of its id carries that moment.
C28_Witness ==
    /\ cache_op = [op |-> "mark_paper_processed", arg |-> 1, exc |-> "none"]
    /\ now = MaxTime
    /\ MarkersOf(processed_papers, 1) = {[arxiv_id |-> 1, at |-> now]}

\* the content of a configuration: its keys with their values
ContentOf(config) == Range(config.items)

\* C32: the configuration handed to detect_and_handle_config_changes gets
\* a hash, and against every configuration that hash is equal exactly when
\* the content is: the same keys and values in another order hash alike,
\* and a different value hashes differently.
C32_HashOfContent ==
    cache_op.op = "detect_and_handle_config_changes"
        => /\ _calculate_config_hash(cache_op.arg) # TypeError
           /\ \A other \in ConfigObjects :
                (ContentOf(other) = ContentOf(cache_op.arg))
                    <=> (_calculate_config_hash(other)
                            = _calculate_config_hash(cache_op.arg))

(***************************************************************************)
(* Properties of run_pipeline and the selection funnel (Spec).             *)
(***************************************************************************)
\* C4: every similarity or rating score a run has read from the cache after
\* its config-reconcile step was stored under the configuration of the run.
C4_ReadScoresMatchConfig ==
    run_pc = "parsed" =>
        \A k \in DOMAIN papers :
            /\ papers[k].embed_score # None
                    => papers[k].embed_under = run_config.content
            /\ papers[k].llm_score # None
                    => papers[k].llm_under = run_config.content

\* C6: the list handed to summarization never holds more than max_selected
\* papers, under every strategy and on every path of select_papers_llm.
C6_AtMostMaxSelected ==
    run_pc = "selected" => Len(papers) <= run_config.max_selected

\* C7: select_papers_embed never returns more than top_k papers.
C7_AtMostTopK ==
    (run_pc = "embedded" /\ run_config.strategy \in {"embedder", "hybrid"})
        => Len(papers) <= run_config.top_k

\* C13: a run that is left without a paper, after the fetch, the parse, the
\* selection or the summarization, returns from run_pipeline without
\* raising, whether or not send_log is set.
C13_ZeroPapersReturnsNormally ==
    [][run_pc = "exit" => run_pc' = "returned"]_vars

\* the similarity score of a candidate of select_papers_embed once the call
\* is over: the cached one, or the one the call has stored
ScoreAfter(p) ==
    IF p.embed_score # None THEN p.embed_score
    ELSE IF \E r \in similarity_scores' : r.arxiv_id = p.arxiv_id
         THEN Float((CHOOSE r \in similarity_scores' :
                        r.arxiv_id = p.arxiv_id).score)
         ELSE None

\* seq is in non-increasing order of field
NonIncreasing(seq, field) ==
    \A k \in 1..(Len(seq) - 1) : seq[k][field].value >= seq[k + 1][field].value

\* the position of the paper in the list
Pos(seq, arxiv_id) == CHOOSE k \in DOMAIN seq : seq[k].arxiv_id = arxiv_id

\* C19: when at least top_k candidates of select_papers_embed have a
\* similarity score, cached or fresh, the call returns exactly top_k of
\* them, in descending order of the score, and no candidate left out has a
\* higher score than one returned.
C19_EmbedReturnsTopK ==
    [][(/\ run_pc = "parsed" /\ run_pc' = "embedded"
        /\ run_config.strategy \in {"embedder", "hybrid"})
        => LET scored == {k \in DOMAIN papers : ScoreAfter(papers[k]) # None}
           IN  Cardinality(scored) >= run_config.top_k
                => /\ Len(papers') = run_config.top_k
                   /\ NonIncreasing(papers', "embed_score")
                   /\ \A j \in DOMAIN papers' :
                        /\ papers'[j].arxiv_id \in {papers[k].arxiv_id : k \in scored}
                        /\ papers'[j].embed_score =
                                ScoreAfter(papers[Pos(papers, papers'[j].arxiv_id)])
                   /\ \A k \in scored :
                        papers[k].arxiv_id \notin Ids(papers')
                            => \A j \in DOMAIN papers' :
                                  papers'[j].embed_score.value
                                        >= ScoreAfter(papers[k]).value]_vars

\* the score that decides the final selection
DecidingScore ==
    IF run_config.strategy \in {"llm", "hybrid"} THEN "llm_score"
    ELSE "embed_score"

\* C20: the list handed to summarization is in non-increasing order of the
\* deciding score, also when fewer than max_selected papers are left, and
\* papers with equal scores are in the order of the candidate list.
C20_FinalListIsSorted ==
    [][(run_pc = "embedded" /\ run_pc' = "selected")
        => /\ NonIncreasing(papers', DecidingScore)
           /\ \A a, b \in DOMAIN papers' :
                (/\ a < b
                 /\ papers'[a][DecidingScore] = papers'[b][DecidingScore])
                    => Pos(papers, papers'[a].arxiv_id)
                            < Pos(papers, papers'[b].arxiv_id)]_vars

\* C21: under the strategy embedder the list handed to summarization holds
\* the max_selected papers of Stage A with the highest similarity (all of
\* them when fewer are left), in descending order of similarity; no paper
\* gets a rating and no rating score is written.
C21_EmbedderOnlySelection ==
    [][(/\ run_pc = "embedded" /\ run_pc' \in {"selected", "exit"}
        /\ run_config.strategy = "embedder")
        => /\ Len(papers') = IF Len(papers) < run_config.max_selected
                             THEN Len(papers) ELSE run_config.max_selected
           /\ NonIncreasing(papers', "embed_score")
           /\ \A j \in DOMAIN papers' :
                \E k \in DOMAIN papers : papers'[j] = papers[k]
           /\ \A k \in DOMAIN papers :
                papers[k].arxiv_id \notin Ids(papers')
                    => \A j \in DOMAIN papers' :
                          papers'[j].embed_score.value
                                >= papers[k].embed_score.value
           /\ rating_scores' = rating_scores]_vars

\* C21 witness: Stage A left more papers than max_selected, and the final
\* list of a run under the strategy embedder holds max_selected of them.
C21_Witness ==
    /\ run_pc = "selected"
    /\ run_config.strategy = "embedder"
    /\ run_config.top_k > run_config.max_selected
    /\ Len(papers) = run_config.max_selected
    /\ Cardinality({r \in similarity_scores : r.under = run_config.content})
            > run_config.max_selected

\* the table holds a score of the paper
is_cached(table, arxiv_id) == \E r \in table : r.arxiv_id = arxiv_id

\* the rows of the table for the candidates of the run
RowsOfCandidates(table) == {r \in table : r.arxiv_id \in Ids(papers)}

C23_NoProcessedCandidate ==
    run_pc \in {"parsed", "embedded", "selected"}
        => \A r \in processed_papers : r.arxiv_id \notin Ids(papers)

\* C23 witness: a second run has fetched its candidates while markers of
\* the first run are stored.
C23_Witness ==
    /\ runs = 2
    /\ run_pc = "parsed"
    /\ papers # <<>>
    /\ Cardinality(processed_papers) = 2

\* C25: a paper with a processed marker was delivered: when a run that
\* has summarized papers ends without delivering them, because rendering or
\* delivery failed, none of these papers carries a marker.
C25_MarkerMeansDelivered ==
    [][(run_pc = "summarized" /\ run_pc' # "delivered")
        => \A k \in DOMAIN papers :
                \A r \in processed_papers' : r.arxiv_id # papers[k].arxiv_id]_vars

\* C29: in every run of the pipeline detect_and_handle_config_changes is
\* called once, in the step that starts the run and in no other, and it has
\* returned when the run goes on to fetch_new_papers, which makes the run's
\* first read of a cached score, and to the scoring calls after it.
C29_ReconcileOnceBeforeScores ==
    [][/\ (runs' = runs + 1)
            <=> cache_op'.op = "detect_and_handle_config_changes"
       /\ (run_pc = "configured" /\ run_pc' # "configured")
            => /\ cache_op.op = "detect_and_handle_config_changes"
               /\ cache_op.exc = "none"]_vars

(***************************************************************************)
(* Properties of the stage functions and their batch job (SpecRate).       *)
(***************************************************************************)
\* C12: when select_papers_llm scores its papers through one batch job that
\* returns, and the survivors need no cut to max_selected, every paper with
\* a cached score and every paper whose own request has a usable result
\* line is among the survivors, whatever happened to the other requests.
C12_FailureRemovesOnlyThatItem ==
    [][(/\ stage = "select_papers_llm"
        /\ stage_pc = "running" /\ stage_pc' = "returned"
        /\ pb_pc = "returned"
        /\ Len(papers) <= run_config.max_selected)
        => LET papers_to_rate == ToRate(papers, "llm_score")
           IN  /\ Ids(WithScore(papers, "llm_score")) \subseteq Ids(papers')
               /\ \A j \in DOMAIN papers_to_rate :
                    HasOkLine(j - 1)
                        => papers_to_rate[j].arxiv_id \in Ids(papers')]_vars

\* C17: a TimeoutError of the batch polling does not leave the stage
\* function that called process_batch: select_papers_llm returns the papers
\* with a cached score only, summarize_paper and parse_papers return no
\* paper, and each of them returns normally.
C17_TimeoutIsHandled ==
    (stage_pc \in {"returned", "raised"} /\ raised = "TimeoutError")
        => /\ stage_pc = "returned"
           /\ stage \in {"summarize_paper", "parse_papers"} => papers = <<>>
           /\ stage = "select_papers_llm"
                => \A k \in DOMAIN papers :
                        /\ is_cached(rating_scores, papers[k].arxiv_id)
                        /\ papers[k].llm_score.tag = "float"

\* C17 witness: the polling of the batch job of parse_vlm timed out, and
\* parse_papers has returned.
C17_Witness ==
    /\ stage = "parse_papers"
    /\ stage_pc = "returned"
    /\ raised = "TimeoutError"

\* the papers that have a processed marker
Marked(table) == {r.arxiv_id : r \in table}

\* C24: summarize_paper writes a marker only for a paper whose own
\* summarization returned a summary: a paper whose request has no result,
\* or whose batch job raised, gets no marker in the call.
C24_MarkedOnlyAfterSummary ==
    [][(stage = "summarize_paper" /\ stage_pc = "running"
        /\ stage_pc' = "returned")
        => Marked(processed_papers') \ Marked(processed_papers)
            \subseteq {papers[k].arxiv_id :
                        k \in {j \in DOMAIN papers \cap DOMAIN final_results :
                                final_results[j] # None}}]_vars

\* C24 witness: summarize_paper has returned paper 2 with its summary and
\* has marked it, and paper 1 has no marker.
C24_Witness ==
    /\ stage = "summarize_paper"
    /\ stage_pc = "returned"
    /\ pb_pc = "returned"
    /\ Ids(papers) = {2}
    /\ Marked(processed_papers) = {2}

\* the scoring of the k-th paper to rate succeeded: process_batch returned
\* and its list holds a result for the paper
ScoringSucceeded(k) ==
    /\ raised = "none"
    /\ k \in DOMAIN final_results
    /\ final_results[k] # None

C36_OneRateResultPerContent ==
    [][(/\ stage = "select_papers_llm"
        /\ stage_pc = "running" /\ stage_pc' = "returned")
        => LET rate_results == rate_llm(final_results, raised)
           IN  /\ Len(rate_results) = Len(ToRate(papers, "llm_score"))
               /\ raised # "none"
                    => \A k \in DOMAIN rate_results : ~rate_results[k].success]_vars

\* the positions of the pages of the k-th PDF in the flat list of pages
PagesOf(k) == ((k - 1) * PagesPerPdf + 1)..(k * PagesPerPdf)

\* C37: when process_batch has returned the page results to parse_vlm,
\* _reconstruct_results gives one ParseResult per PDF, and a PDF is a
\* success only if it has a page and each of its pages has a result that
\* is in the list and is not None, whatever the length of the list.
C37_SuccessNeedsEveryPage ==
    [][(/\ stage = "parse_papers" /\ raised = "none"
        /\ stage_pc = "running" /\ stage_pc' = "returned")
        => LET results == _reconstruct_results(final_results, Len(papers))
           IN  /\ Len(results) = Len(papers)
               /\ \A k \in DOMAIN results :
                    results[k].success
                        => /\ PagesOf(k) # {}
                           /\ \A j \in PagesOf(k) :
                                /\ j \in DOMAIN final_results
                                /\ final_results[j] # None]_vars

(***************************************************************************)
(* Properties of the invocations that reconcile with a dict                *)
(* (SpecReconcile).                                                        *)
(***************************************************************************)
\* C35: a call of detect_and_handle_config_changes that records a hash
\* while an earlier hash is stored leaves both score tables empty; and in
\* every state each score in the cache was computed under the configuration
\* whose hash is the most recent one stored.
C35_HashRecordedAfterClear ==
    /\ [](MostRecentHash # None
            => \A r \in similarity_scores \cup rating_scores :
                    _calculate_config_hash(DictOf(r.under)) = MostRecentHash)
    /\ [][(/\ cache_op'.op = "detect_and_handle_config_changes"
           /\ config_history # {}
           /\ config_history' # config_history)
            => similarity_scores' = {} /\ rating_scores' = {}]_vars

(***************************************************************************)
(* Properties of an invocation on a failing cache (SpecStoreErrors).       *)
(***************************************************************************)
\* the paper is in the list with the score in the field
Carries(seq, id, field, score) ==
    \E k \in DOMAIN seq : seq[k].arxiv_id = id /\ seq[k][field] = score

\* C38: a paper whose cached scores cannot be read stays a candidate with
\* both scores absent; and when the database refuses the writes of a
\* scoring stage that returns, the stage goes on to the next step, and
\* every freshly scored paper is a survivor with its score whenever the
\* stage has no cut to make.
C38_CacheErrorsKeepPapers ==
    [][/\ \A fetched \in SUBSET (1..MaxItems) : \A read_error \in SUBSET fetched :
            (cache_op'.op = "none" /\ FetchNewPapers(fetched, fetched, read_error))
                => \A id \in read_error :
                        (\A r \in processed_papers : r.arxiv_id # id)
                            => /\ Carries(papers', id, "embed_score", None)
                               /\ Carries(papers', id, "llm_score", None)
       /\ \A rated \in RateResults("embed_score") :
            (db_locked /\ cache_op'.op = "none" /\ RateEmbed(FALSE, rated))
                => /\ run_pc' = "embedded"
                   /\ similarity_scores' = similarity_scores
                   /\ Len(papers) <= run_config.top_k
                        => \A id \in DOMAIN rated :
                                Carries(papers', id, "embed_score", Float(rated[id]))
       /\ \A rated \in RateResults("llm_score") :
            (db_locked /\ cache_op'.op = "none" /\ RateLLM(FALSE, rated))
                => /\ run_pc' \in {"selected", "exit"}
                   /\ rating_scores' = rating_scores
                   /\ Len(papers) <= run_config.max_selected
                        => \A id \in DOMAIN rated :
                                Carries(papers', id, "llm_score", Float(rated[id]))]_vars

\* C38 witness: the similarity score of paper 1 is in the cache and could
\* not be read; select_papers_embed has scored papers 1 and 2 afresh while
\* the database was locked, and both go on with a score that is not stored.
C38_Witness ==
    /\ run_pc = "embedded"
    /\ db_locked
    /\ Len(papers) = 2
    /\ \A k \in DOMAIN papers : papers[k].embed_score = Float(2)
    /\ \A r \in similarity_scores : r.score # 2
    /\ \E r \in similarity_scores : r.arxiv_id = 1

(***************************************************************************)
(* Properties of the PDF cache directory (SpecPdf).                        *)
(***************************************************************************)
\* the position of a URL's file in the directory, 0 when it has none
PosOf(files, url) ==
    IF \E k \in DOMAIN files : files[k].url = url
    THEN CHOOSE k \in DOMAIN files : files[k].url = url
    ELSE 0

UrlsOf(files) == {files[k].url : k \in DOMAIN files}

\* the total is at most max(80% of the budget, budget minus 128MB)
WithinTarget(total, budget) ==
    \/ total * 10 <= budget * 8
    \/ total <= budget - 128

\* C30: a call of cleanup_pdf_cache on a directory within its budget
\* deletes nothing.  On a directory over its budget it only deletes files:
\* none of the keep set, each one less recently used than every file
\* outside the keep set that it leaves, and it leaves the directory at no
\* more than max(80% of the budget, budget minus 128MB) or with kept files
\* only; the file deleted last was deleted while the directory was still
\* over that size.
C30_EvictionLRUToTarget ==
    [][\A keep \in SUBSET PdfUrls, budget \in Budgets :
        CleanupPdfCache(keep, budget) =>
            LET deleted == UrlsOf(pdf_cache) \ UrlsOf(pdf_cache')
                left == UrlsOf(pdf_cache')
            IN  IF TotalSize(pdf_cache) <= budget THEN pdf_cache' = pdf_cache
                ELSE /\ left \subseteq UrlsOf(pdf_cache)
                     /\ \A u \in left :
                            /\ pdf_cache'[PosOf(pdf_cache', u)]
                                    = pdf_cache[PosOf(pdf_cache, u)]
                            /\ \A v \in left :
                                    PosOf(pdf_cache, u) < PosOf(pdf_cache, v)
                                        => PosOf(pdf_cache', u) < PosOf(pdf_cache', v)
                     /\ deleted \cap keep = {}
                     /\ \A d \in deleted : \A u \in left \ keep :
                            PosOf(pdf_cache, d) < PosOf(pdf_cache, u)
                     /\ \/ WithinTarget(TotalSize(pdf_cache'), budget)
                        \/ left \subseteq keep
                     /\ \A d \in deleted :
                            (\A e \in deleted :
                                PosOf(pdf_cache, e) <= PosOf(pdf_cache, d))
                            => ~WithinTarget(TotalSize(pdf_cache')
                                    + pdf_cache[PosOf(pdf_cache, d)].size, budget)]_vars

\* C30 witness: cleanup_pdf_cache was called on 1200MB of files with a
\* budget of 1024MB, the least recently used file being the one to keep;
\* it left that file and no more than 896MB.
C30_Witness ==
    /\ pdf_op.op = "cleanup_pdf_cache"
    /\ pdf_op.budget = 1024
    /\ pdf_op.before = 1200
    /\ Len(pdf_cache) = 2
    /\ pdf_op.keep = {pdf_cache[1].url}
    /\ TotalSize(pdf_cache) <= 896

(***************************************************************************)
(* Properties of fetch_pdf (SpecFetch).                                    *)
(***************************************************************************)
\* the list holds one result per URL, at the index of the URL
OnePerUrl ==
    /\ Len(fp_results) = Len(pdf_urls)
    /\ \A k \in DOMAIN pdf_urls :
            /\ fp_results[k] # None
            /\ fp_results[k].pdf_url = pdf_urls[k]

\* C31: a call of fetch_pdf does not raise, and the list it returns holds
\* for every input URL one FetchResult, none of them None, at the index of
\* the URL, in whatever order the futures completed and however they ended.
C31_OneResultPerUrl ==
    /\ fp_pc # "raised"
    /\ fp_pc = "returned" => OnePerUrl

\* C31 witness: fetch_pdf has returned for a list of different URLs, with a
\* result that has text and a failure result in it.
C31_Witness ==
    /\ fp_pc = "returned"
    /\ Len(pdf_urls) > 1
    /\ pdf_urls[1] # pdf_urls[2]
    /\ \E j, k \in DOMAIN fp_results :
            /\ fp_results[j] # None /\ fp_results[j].extraction_success
            /\ fp_results[k] # None /\ ~fp_results[k].extraction_success

====
